---- MODULE Spec2Model ----
(***************************************************************************)
(* Model of vm_inventory.py: the Azure / GCP VM inventory pipeline.        *)
(*                                                                         *)
(* A Python str is a sequence of text pieces, one character per piece      *)
(* where letter case matters (IDs, display names, filter values), so that  *)
(* str.lower() is computed character by character and "" is <<>>.          *)
(*                                                                         *)
(* A JSON member is a record [k, v]: k = "absent" (key missing), "null",   *)
(* or "str".  A Python value is [k, v] with k = "none" or "str".           *)
(***************************************************************************)
EXTENDS Integers, Sequences, FiniteSets, TLC

VARIABLES pc, args, subscriptions, scopes, idx, local, records, cmds,
          azure_result, gcp_result, stderr, file, exit_status,
          rs, mp

vars == <<pc, args, subscriptions, scopes, idx, local, records, cmds,
          azure_result, gcp_result, stderr, file, exit_status, rs, mp>>

pipeVars == <<pc, args, subscriptions, scopes, idx, local, records, cmds,
              azure_result, gcp_result, stderr, file, exit_status>>

----------------------------------------------------------------------------
(* Bounds of the model *)

MaxAccounts == 2
MaxRequested == 2
MaxProjects == 2
MaxVms == 2

----------------------------------------------------------------------------
(* Sequences and values *)

SeqsUpTo(S, n) == UNION {[1..m -> S] : m \in 0..n}

NoDup(s) == \A i, j \in DOMAIN s : i # j => s[i] # s[j]

RECURSIVE Flatten(_)
Flatten(ss) == IF ss = <<>> THEN <<>> ELSE Head(ss) \o Flatten(Tail(ss))

Absent == [k |-> "absent", v |-> <<>>]
Null == [k |-> "null", v |-> <<>>]
JStr(s) == [k |-> "str", v |-> s]

PyNone == [k |-> "none", v |-> <<>>]
PyStr(s) == [k |-> "str", v |-> s]

(* bool(x) for x a str or None *)
Truthy(x) == x.k = "str" /\ x.v # <<>>

(* x or y *)
PyOr(x, y) == IF Truthy(x) THEN x ELSE y

(* dict.get(key): the member's value, None when the key is missing *)
Get(member) == IF member.k = "str" THEN PyStr(member.v) ELSE PyNone

(* dict.get(key, default): the default only when the key is missing *)
GetDefault(member, default) ==
    IF member.k = "absent" THEN default ELSE Get(member)

(* str.lower() *)
LowerChar(c) == CASE c = "A" -> "a" [] c = "B" -> "b" [] OTHER -> c
Lower(s) == [i \in DOMAIN s |-> LowerChar(s[i])]

----------------------------------------------------------------------------
(* Python dicts: insertion-ordered sequences of <<key, value>> with unique *)
(* keys                                                                    *)

DictHas(d, key) == \E i \in DOMAIN d : d[i][1] = key

DictGet(d, key) == d[CHOOSE i \in DOMAIN d : d[i][1] = key][2]

(* d[key] = value: an existing key keeps its position *)
DictSet(d, key, value) ==
    IF DictHas(d, key)
    THEN [i \in DOMAIN d |-> IF d[i][1] = key THEN <<key, value>> ELSE d[i]]
    ELSE Append(d, <<key, value>>)

DictKeys(d) == [i \in DOMAIN d |-> d[i][1]]

----------------------------------------------------------------------------
(* VmRecord and the two field mappings *)

AZURE == <<"azure">>
GCP == <<"gcp">>
UNKNOWN == <<"unknown">>
EMPTY == <<>>

NoTags == [k |-> "absent", owner |-> Absent, cleardata |-> Absent,
           environment |-> Absent]
NullTags == [k |-> "null", owner |-> Absent, cleardata |-> Absent,
             environment |-> Absent]

(* tags = vm.get("tags", {}) or {}: a missing, null or empty object has no *)
(* member                                                                  *)
TagsOrEmpty(tags) == IF tags.k = "obj" THEN tags ELSE NoTags

(* status=vm.get("powerState") or vm.get("provisioningState", "unknown") *)
AzureStatus(vm) ==
    PyOr(Get(vm.powerState), GetDefault(vm.provisioningState, PyStr(UNKNOWN)))

(* the VmRecord(...) built in fetch_azure_vms *)
AzureRecord(subscription_id, subscription_name, vm) ==
    LET tags == TagsOrEmpty(vm.tags)
    IN [cloud |-> PyStr(AZURE),
        subscription_or_project |-> PyOr(subscription_name, PyStr(subscription_id)),
        resource_group_or_project |-> GetDefault(vm.resourceGroup, PyStr(EMPTY)),
        name |-> GetDefault(vm.name, PyStr(EMPTY)),
        status |-> AzureStatus(vm),
        owner |-> Get(tags.owner),
        cleardata |-> Get(tags.cleardata),
        environment |-> Get(tags.environment)]

(* the VmRecord(...) built in fetch_gcp_vms *)
GcpRecord(project, instance) ==
    LET labels == TagsOrEmpty(instance.labels)
    IN [cloud |-> PyStr(GCP),
        subscription_or_project |-> PyStr(project),
        resource_group_or_project |-> PyStr(project),
        name |-> GetDefault(instance.name, PyStr(EMPTY)),
        status |-> GetDefault(instance.status, PyStr(UNKNOWN)),
        owner |-> Get(labels.owner),
        cleardata |-> Get(labels.cleardata),
        environment |-> Get(labels.environment)]

(* str(field) instead of field or "": an unset field prints as None *)
to_row_str(record) ==
    LET Text(x) == IF x.k = "none" THEN PyStr(<<"None">>) ELSE x
    IN <<record.cloud, record.subscription_or_project,
         record.resource_group_or_project, record.name, record.status,
         Text(record.owner), Text(record.cleardata), Text(record.environment)>>

(* VmRecord.to_row *)
to_row(record) ==
    <<record.cloud, record.subscription_or_project,
      record.resource_group_or_project, record.name, record.status,
      PyOr(record.owner, PyStr(EMPTY)),
      PyOr(record.cleardata, PyStr(EMPTY)),
      PyOr(record.environment, PyStr(EMPTY))>>

CSV_HEADERS == <<<<"cloud">>, <<"subscription_or_project">>,
                 <<"resource_group_or_project">>, <<"vm_name">>, <<"status">>,
                 <<"owner">>, <<"cleardata">>, <<"environment">>>>

(* csv.writer.writerow: None is written as the empty string *)
CsvCell(x) == IF x.k = "none" THEN EMPTY ELSE x.v
writerow(row) == [i \in DOMAIN row |-> CsvCell(row[i])]

(* the lines write_csv puts in the file *)
CsvLines(recs) == <<CSV_HEADERS>> \o [i \in DOMAIN recs |-> writerow(to_row(recs[i]))]

----------------------------------------------------------------------------
(* resolve_requested_subscriptions *)

RECURSIVE BuildIdByName(_, _)
(* {name.lower(): sub_id for sub_id, name in all_subscriptions.items()}:   *)
(* a later subscription with the same lowered name overwrites the value    *)
BuildIdByName(items, acc) ==
    IF items = <<>> THEN acc
    ELSE BuildIdByName(Tail(items),
                       DictSet(acc, Lower(Head(items)[2].v), Head(items)[1]))

(* the name lookup tried before the ID lookup *)
ResolveValueNameFirst(value, all_subscriptions, id_by_name) ==
    IF DictHas(id_by_name, Lower(value))
    THEN [k |-> "id", v |-> DictGet(id_by_name, Lower(value))]
    ELSE IF DictHas(all_subscriptions, value)
    THEN [k |-> "id", v |-> value]
    ELSE [k |-> "unmatched", v |-> value]

(* the requested value looked up as typed, without lower() *)
ResolveValueCaseSensitive(value, all_subscriptions, id_by_name) ==
    IF DictHas(all_subscriptions, value)
    THEN [k |-> "id", v |-> value]
    ELSE IF DictHas(id_by_name, value)
    THEN [k |-> "id", v |-> DictGet(id_by_name, value)]
    ELSE [k |-> "unmatched", v |-> value]

(* the if / elif / else of the loop body: the ID the value stands for *)
ResolveValue(value, all_subscriptions, id_by_name) ==
    IF DictHas(all_subscriptions, value)
    THEN [k |-> "id", v |-> value]
    ELSE IF DictHas(id_by_name, Lower(value))
    THEN [k |-> "id", v |-> DictGet(id_by_name, Lower(value))]
    ELSE [k |-> "unmatched", v |-> value]

RECURSIVE ResolveLoopSkips(_, _, _, _)
(* an unmatched value is skipped (continue) instead of raising *)
ResolveLoopSkips(requested, all_subscriptions, id_by_name, resolved) ==
    IF requested = <<>>
    THEN [k |-> "ok", items |-> resolved, err |-> "", value |-> <<>>]
    ELSE LET hit == [k |-> IF DictHas(all_subscriptions, Head(requested))
                              \/ DictHas(id_by_name, Lower(Head(requested)))
                           THEN "id" ELSE "unmatched",
                     v |-> IF DictHas(all_subscriptions, Head(requested))
                           THEN Head(requested)
                           ELSE IF DictHas(id_by_name, Lower(Head(requested)))
                           THEN DictGet(id_by_name, Lower(Head(requested)))
                           ELSE Head(requested)]
         IN IF hit.k = "unmatched"
            THEN ResolveLoopSkips(Tail(requested), all_subscriptions,
                                  id_by_name, resolved)
            ELSE ResolveLoopSkips(Tail(requested), all_subscriptions, id_by_name,
                                  DictSet(resolved, hit.v,
                                          DictGet(all_subscriptions, hit.v)))

RECURSIVE ResolveLoop(_, _, _, _)
ResolveLoop(requested, all_subscriptions, id_by_name, resolved) ==
    IF requested = <<>>
    THEN [k |-> "ok", items |-> resolved, err |-> "", value |-> <<>>]
    ELSE LET hit == ResolveValue(Head(requested), all_subscriptions, id_by_name)
         IN IF hit.k = "unmatched"
            THEN [k |-> "raise", items |-> <<>>,
                  err |-> "UnknownSubscription", value |-> Head(requested)]
            ELSE ResolveLoop(Tail(requested), all_subscriptions, id_by_name,
                             DictSet(resolved, hit.v,
                                     DictGet(all_subscriptions, hit.v)))

(* requested is None or a list: [k |-> "none" | "list", v |-> values] *)
resolve_requested_subscriptions(requested, all_subscriptions) ==
    IF requested.k = "none" \/ requested.v = <<>>
    THEN [k |-> "ok", items |-> all_subscriptions, err |-> "", value |-> <<>>]
    ELSE IF \E i \in DOMAIN all_subscriptions : all_subscriptions[i][2].k = "none"
    THEN [k |-> "raise", items |-> <<>>, err |-> "AttributeError", value |-> <<>>]
    ELSE ResolveLoop(requested.v, all_subscriptions,
                     BuildIdByName(all_subscriptions, <<>>), <<>>)

(* Inputs of the resolution on its own: a typed dict[str, str] and an      *)
(* optional list of filter values                                          *)
ResolveStrings == {<<"a">>, <<"A">>, <<"b">>, <<"B">>}

SubscriptionDicts ==
    {d \in SeqsUpTo(ResolveStrings \X {PyStr(n) : n \in ResolveStrings},
                    MaxAccounts) : NoDup(DictKeys(d))}

RequestedLists ==
    {[k |-> "none", v |-> <<>>]}
        \cup {[k |-> "list", v |-> r] : r \in SeqsUpTo(ResolveStrings, MaxRequested)}

NoResolveOut == [k |-> "pending", items |-> <<>>, err |-> "", value |-> <<>>]

InitResolve ==
    /\ rs \in [stage : {"called"}, requested : RequestedLists,
                all : SubscriptionDicts, out : {NoResolveOut}]
    /\ mp = <<>>
    /\ pc = "off"
    /\ args = <<>>
    /\ subscriptions = <<>>
    /\ scopes = <<>>
    /\ idx = 0
    /\ local = <<>>
    /\ records = <<>>
    /\ cmds = <<>>
    /\ azure_result = <<>>
    /\ gcp_result = <<>>
    /\ stderr = <<>>
    /\ file = <<>>
    /\ exit_status = -1

ResolveReturn ==
    /\ rs.stage = "called"
    /\ rs' = [rs EXCEPT !.stage = "returned",
                        !.out = resolve_requested_subscriptions(rs.requested, rs.all)]
    /\ UNCHANGED <<pipeVars, mp>>

NextResolve == ResolveReturn

SpecResolve == InitResolve /\ [][NextResolve]_vars

----------------------------------------------------------------------------
(* The field mappings on their own: every shape of one VM's JSON *)

TagValues == {Absent, Null, JStr(EMPTY), JStr(<<"x">>)}

TagObjects ==
    {NoTags, NullTags}
        \cup [k : {"obj"}, owner : TagValues, cleardata : TagValues,
              environment : TagValues]

AzureVmShapes ==
    [resourceGroup : {Absent, JStr(<<"rg">>)},
     name : {Absent, JStr(<<"vm">>)},
     powerState : {Absent, Null, JStr(EMPTY), JStr(<<"VM running">>)},
     provisioningState : {Absent, Null, JStr(EMPTY), JStr(<<"Succeeded">>)},
     tags : TagObjects]

GcpInstanceShapes ==
    [name : {Absent, JStr(<<"vm">>)},
     status : {Absent, Null, JStr(EMPTY), JStr(<<"RUNNING">>)},
     labels : TagObjects]

InitMap ==
    /\ \/ mp \in [stage : {"source"}, cloud : {"azure"}, scope : {<<"a">>},
                   scope_name : {PyStr(<<"N">>), PyStr(EMPTY)},
                   vm : AzureVmShapes, record : {<<>>}, line : {<<>>}]
       \/ mp \in [stage : {"source"}, cloud : {"gcp"}, scope : {<<"p">>},
                   scope_name : {PyNone},
                   vm : GcpInstanceShapes, record : {<<>>}, line : {<<>>}]
    /\ rs = <<>>
    /\ pc = "off"
    /\ args = <<>>
    /\ subscriptions = <<>>
    /\ scopes = <<>>
    /\ idx = 0
    /\ local = <<>>
    /\ records = <<>>
    /\ cmds = <<>>
    /\ azure_result = <<>>
    /\ gcp_result = <<>>
    /\ stderr = <<>>
    /\ file = <<>>
    /\ exit_status = -1

MapAzureVm ==
    /\ mp.stage = "source"
    /\ mp.cloud = "azure"
    /\ mp' = [mp EXCEPT !.stage = "mapped",
                        !.record = AzureRecord(mp.scope, mp.scope_name, mp.vm)]
    /\ UNCHANGED <<pipeVars, rs>>

MapGcpInstance ==
    /\ mp.stage = "source"
    /\ mp.cloud = "gcp"
    /\ mp' = [mp EXCEPT !.stage = "mapped",
                        !.record = GcpRecord(mp.scope, mp.vm)]
    /\ UNCHANGED <<pipeVars, rs>>

WriteRow ==
    /\ mp.stage = "mapped"
    /\ mp' = [mp EXCEPT !.stage = "written",
                        !.line = writerow(to_row(mp.record))]
    /\ UNCHANGED <<pipeVars, rs>>

NextMap == MapAzureVm \/ MapGcpInstance \/ WriteRow

SpecMap == InitMap /\ [][NextMap]_vars

----------------------------------------------------------------------------
(* run_json_command: what one external command can produce *)

Ok(v) == [k |-> "ok", v |-> v]
CommandFailed == [k |-> "CommandFailed", v |-> <<>>]
MalformedOutput == [k |-> "MalformedOutput", v |-> <<>>]

CommandOutcomes(jsonValues) ==
    {CommandFailed, MalformedOutput} \cup {Ok(v) : v \in jsonValues}

(* az account list: subscriptions have distinct IDs; the display name is a *)
(* string or is missing                                                    *)
AccountObjects ==
    {[id |-> <<"a">>, name |-> Absent], [id |-> <<"a">>, name |-> JStr(<<"N">>)],
     [id |-> <<"b">>, name |-> JStr(<<"N">>)]}
AccountLists ==
    {l \in SeqsUpTo(AccountObjects, MaxAccounts) :
        NoDup([i \in DOMAIN l |-> l[i].id])}

(* az vm list --show-details: VM names are unique within a subscription *)
AzureVms ==
    {[resourceGroup |-> JStr(<<"rg">>), name |-> JStr(<<"vm1">>),
      powerState |-> JStr(<<"VM running">>),
      provisioningState |-> JStr(<<"Succeeded">>),
      tags |-> [k |-> "obj", owner |-> JStr(<<"x">>), cleardata |-> Absent,
                environment |-> JStr(EMPTY)]],
     [resourceGroup |-> JStr(<<"rg">>), name |-> JStr(<<"vm2">>),
      powerState |-> Absent, provisioningState |-> JStr(<<"Succeeded">>),
      tags |-> NullTags]}
AzureVmLists == {l \in SeqsUpTo(AzureVms, MaxVms) : NoDup(l)}

(* gcloud compute instances list: the instances of a project, in the     *)
(* listing's order                                                         *)
GcpInstanceOrder ==
    <<[name |-> JStr(<<"vm1">>), status |-> JStr(<<"RUNNING">>),
       labels |-> [k |-> "obj", owner |-> JStr(<<"x">>), cleardata |-> Absent,
                   environment |-> Absent]],
      [name |-> JStr(<<"vm2">>), status |-> Absent, labels |-> NoTags]>>
GcpInstanceLists ==
    {SubSeq(GcpInstanceOrder, 1, n) :
        n \in {m \in 0..MaxVms : m <= Len(GcpInstanceOrder)}}

(* parse_args: an option given zero times is None, otherwise the list of   *)
(* its values in command-line order                                        *)
FilterValues == {<<"a">>, <<"b">>, <<"n">>}
ProjectIds == {<<"p">>, <<"q">>}

Optional(S, n) ==
    {[k |-> "none", v |-> <<>>]}
        \cup {[k |-> "list", v |-> l] : l \in SeqsUpTo(S, n) \ {<<>>}}

Arguments ==
    [azure_subscription : Optional(FilterValues, MaxRequested),
     gcp_project : Optional(ProjectIds, MaxProjects)]

----------------------------------------------------------------------------
(* main *)

NoResult == [k |-> "pending", v |-> <<>>]
NoFile == [k |-> "none", lines |-> <<>>]

Init ==
    /\ pc = "azure_subscriptions"
    /\ args \in Arguments
    /\ subscriptions = <<>>
    /\ scopes = <<>>
    /\ idx = 0
    /\ local = <<>>
    /\ records = <<>>
    /\ cmds = <<>>
    /\ azure_result = NoResult
    /\ gcp_result = NoResult
    /\ stderr = <<>>
    /\ file = NoFile
    /\ exit_status = -1
    /\ rs = <<>>
    /\ mp = <<>>

Ran(cmd, scope, out) == Append(cmds, [cmd |-> cmd, scope |-> scope, out |-> out])

RECURSIVE SubscriptionsDict(_, _)
(* {account["id"]: account.get("name", account["id"]) for account in ...} *)
SubscriptionsDict(accounts, acc) ==
    IF accounts = <<>> THEN acc
    ELSE SubscriptionsDict(
             Tail(accounts),
             DictSet(acc, Head(accounts).id,
                     GetDefault(Head(accounts).name, PyStr(Head(accounts).id))))

(* a single try block around both fetches: an Azure error ends collection *)
AzureRaisedSkipsGcp(err) ==
    /\ azure_result' = [k |-> "raise", v |-> err]
    /\ stderr' = Append(stderr, <<"Failed to retrieve Azure VMs", err>>)
    /\ local' = <<>>
    /\ scopes' = <<>>
    /\ idx' = 0
    /\ subscriptions' = <<>>
    /\ pc' = "report"
    /\ UNCHANGED <<records, gcp_result, file, exit_status>>

(* records shared with main: what was mapped before the error is kept *)
AzureRaisedKeepsPartial(err) ==
    /\ azure_result' = [k |-> "raise", v |-> err]
    /\ stderr' = Append(stderr, <<"Failed to retrieve Azure VMs", err>>)
    /\ records' = records \o local
    /\ local' = <<>>
    /\ scopes' = <<>>
    /\ idx' = 0
    /\ subscriptions' = <<>>
    /\ pc' = "gcp"
    /\ UNCHANGED <<gcp_result, file, exit_status>>

(* except Exception around fetch_azure_vms: log, keep going with GCP *)
AzureRaised(err) ==
    /\ azure_result' = [k |-> "raise", v |-> err]
    /\ stderr' = Append(stderr, <<"Failed to retrieve Azure VMs", err>>)
    /\ local' = <<>>
    /\ scopes' = <<>>
    /\ idx' = 0
    /\ subscriptions' = <<>>
    /\ pc' = "gcp"
    /\ UNCHANGED <<records, gcp_result, file, exit_status>>

(* fetch_azure_subscriptions *)
AzureListSubscriptions ==
    /\ pc = "azure_subscriptions"
    /\ \E out \in CommandOutcomes(AccountLists) :
          /\ cmds' = Ran("az account list", <<>>, out)
          /\ IF out.k = "ok"
             THEN /\ subscriptions' = SubscriptionsDict(out.v, <<>>)
                  /\ pc' = "azure_resolve"
                  /\ UNCHANGED <<scopes, idx, local, records, azure_result,
                                 gcp_result, stderr, file, exit_status>>
             ELSE AzureRaised(out.k)
    /\ UNCHANGED <<args, rs, mp>>

(* the call of resolve_requested_subscriptions in fetch_azure_vms *)
AzureResolve ==
    /\ pc = "azure_resolve"
    /\ LET r == resolve_requested_subscriptions(args.azure_subscription,
                                                subscriptions)
       IN IF r.k = "ok"
          THEN /\ scopes' = r.items
               /\ idx' = 1
               /\ pc' = "azure_vms"
               /\ UNCHANGED <<subscriptions, local, records, azure_result,
                              gcp_result, stderr, file, exit_status>>
          ELSE AzureRaised(r.err)
    /\ UNCHANGED <<args, cmds, rs, mp>>

(* one iteration of the subscription loop of fetch_azure_vms *)
AzureListVms ==
    /\ pc = "azure_vms"
    /\ idx <= Len(scopes)
    /\ \E out \in CommandOutcomes(AzureVmLists) :
          /\ cmds' = Ran("az vm list", scopes[idx][1], out)
          /\ IF out.k = "ok"
             THEN /\ local' = local \o
                        [i \in DOMAIN out.v |->
                            AzureRecord(scopes[idx][1], scopes[idx][2], out.v[i])]
                  /\ idx' = idx + 1
                  /\ UNCHANGED <<pc, subscriptions, scopes, records,
                                 azure_result, gcp_result, stderr, file,
                                 exit_status>>
             ELSE AzureRaised(out.k)
    /\ UNCHANGED <<args, rs, mp>>

(* return records; records.extend(...) in main *)
AzureReturn ==
    /\ pc = "azure_vms"
    /\ idx > Len(scopes)
    /\ azure_result' = Ok(local)
    /\ records' = records \o local
    /\ local' = <<>>
    /\ scopes' = <<>>
    /\ idx' = 0
    /\ subscriptions' = <<>>
    /\ pc' = "gcp"
    /\ UNCHANGED <<args, cmds, gcp_result, stderr, file, exit_status, rs, mp>>

(* except Exception around fetch_gcp_vms *)
GcpRaised(err) ==
    /\ gcp_result' = [k |-> "raise", v |-> err]
    /\ stderr' = Append(stderr, <<"Failed to retrieve GCP VMs", err>>)
    /\ local' = <<>>
    /\ scopes' = <<>>
    /\ idx' = 0
    /\ pc' = "report"
    /\ UNCHANGED <<subscriptions, records, azure_result, file, exit_status>>

(* no early return: an empty project list falls back to a default project *)
GcpStartDefaultProject ==
    /\ pc = "gcp"
    /\ LET projects == IF args.gcp_project.k = "none" THEN <<<<"p">>>>
                       ELSE args.gcp_project.v
       IN /\ scopes' = projects
          /\ idx' = 1
          /\ pc' = "gcp_vms"
          /\ UNCHANGED gcp_result
    /\ UNCHANGED <<args, subscriptions, local, records, cmds, azure_result,
                   stderr, file, exit_status, rs, mp>>

(* fetch_gcp_vms(args.gcp_project or []): the early return on no projects *)
GcpStart ==
    /\ pc = "gcp"
    /\ LET projects == IF args.gcp_project.k = "none" THEN <<>>
                       ELSE args.gcp_project.v
       IN IF projects = <<>>
          THEN /\ gcp_result' = Ok(<<>>)
               /\ pc' = "report"
               /\ UNCHANGED <<scopes, idx>>
          ELSE /\ scopes' = projects
               /\ idx' = 1
               /\ pc' = "gcp_vms"
               /\ UNCHANGED gcp_result
    /\ UNCHANGED <<args, subscriptions, local, records, cmds, azure_result,
                   stderr, file, exit_status, rs, mp>>

(* one iteration of the project loop of fetch_gcp_vms *)
GcpListInstances ==
    /\ pc = "gcp_vms"
    /\ idx <= Len(scopes)
    /\ \E out \in CommandOutcomes(GcpInstanceLists) :
          /\ cmds' = Ran("gcloud compute instances list", scopes[idx], out)
          /\ IF out.k = "ok"
             THEN /\ local' = local \o
                        [i \in DOMAIN out.v |-> GcpRecord(scopes[idx], out.v[i])]
                  /\ idx' = idx + 1
                  /\ UNCHANGED <<pc, subscriptions, scopes, records,
                                 azure_result, gcp_result, stderr, file,
                                 exit_status>>
             ELSE GcpRaised(out.k)
    /\ UNCHANGED <<args, rs, mp>>

(* records.insert(0, ...) instead of extend: GCP rows come first *)
GcpReturnPrepends ==
    /\ pc = "gcp_vms"
    /\ idx > Len(scopes)
    /\ gcp_result' = Ok(local)
    /\ records' = local \o records
    /\ local' = <<>>
    /\ scopes' = <<>>
    /\ idx' = 0
    /\ pc' = "report"
    /\ UNCHANGED <<args, subscriptions, cmds, azure_result, stderr, file,
                   exit_status, rs, mp>>

(* return records; records.extend(...) in main *)
GcpReturn ==
    /\ pc = "gcp_vms"
    /\ idx > Len(scopes)
    /\ gcp_result' = Ok(local)
    /\ records' = records \o local
    /\ local' = <<>>
    /\ scopes' = <<>>
    /\ idx' = 0
    /\ pc' = "report"
    /\ UNCHANGED <<args, subscriptions, cmds, azure_result, stderr, file,
                   exit_status, rs, mp>>

(* no emptiness check: a header-only file is written and 0 returned *)
ReportEmptyWritesHeader ==
    /\ pc = "report"
    /\ records = <<>>
    /\ file' = [k |-> "written", lines |-> CsvLines(records)]
    /\ exit_status' = 0
    /\ pc' = "exit"
    /\ UNCHANGED <<args, subscriptions, scopes, idx, local, records, cmds,
                   azure_result, gcp_result, stderr, rs, mp>>

(* if not records: ... return 1 *)
ReportEmpty ==
    /\ pc = "report"
    /\ records = <<>>
    /\ stderr' = Append(stderr, <<"No VMs found or all queries failed; no CSV written.",
                                  "">>)
    /\ exit_status' = 1
    /\ pc' = "exit"
    /\ UNCHANGED <<args, subscriptions, scopes, idx, local, records, cmds,
                   azure_result, gcp_result, file, rs, mp>>

(* write_csv(args.output, records); return 0.  open() can raise OSError,   *)
(* which nothing catches: the interpreter prints the traceback and exits   *)
(* with status 1                                                           *)
WriteCsv ==
    /\ pc = "report"
    /\ records # <<>>
    /\ \E opened \in BOOLEAN :
          IF opened
          THEN /\ file' = [k |-> "written", lines |-> CsvLines(records)]
               /\ exit_status' = 0
               /\ pc' = "exit"
               /\ UNCHANGED stderr
          ELSE /\ stderr' = Append(stderr, <<"Traceback", "OSError">>)
               /\ exit_status' = 1
               /\ pc' = "exit"
               /\ UNCHANGED file
    /\ UNCHANGED <<args, subscriptions, scopes, idx, local, records, cmds,
                   azure_result, gcp_result, rs, mp>>

Next ==
    \/ AzureListSubscriptions
    \/ AzureResolve
    \/ AzureListVms
    \/ AzureReturn
    \/ GcpStart
    \/ GcpListInstances
    \/ GcpReturn
    \/ ReportEmpty
    \/ WriteCsv

Spec == Init /\ [][Next]_vars

----------------------------------------------------------------------------
(* What a run was given and what it did, read from the command log *)

Projects == IF args.gcp_project.k = "none" THEN <<>> ELSE args.gcp_project.v

IsAzureVmList(c) == c.cmd = "az vm list"
IsGcpList(c) == c.cmd = "gcloud compute instances list"
IsAzure(c) == c.cmd \in {"az account list", "az vm list"}

AzureVmCmds == SelectSeq(cmds, IsAzureVmList)
GcpCmds == SelectSeq(cmds, IsGcpList)
ScopesOf(cs) == [i \in DOMAIN cs |-> cs[i].scope]

IsPrefix(s, t) == Len(s) <= Len(t) /\ s = SubSeq(t, 1, Len(s))

Finished == pc \in {"report", "exit"}

IsAzureRecord(r) == r.cloud = PyStr(AZURE)
IsGcpRecord(r) == r.cloud = PyStr(GCP)

(* the account list the Azure CLI returned, <<>> if the listing failed *)
Listed ==
    IF cmds # <<>> /\ cmds[1].cmd = "az account list" /\ cmds[1].out.k = "ok"
    THEN cmds[1].out.v ELSE <<>>
ListingSucceeded ==
    cmds # <<>> /\ cmds[1].cmd = "az account list" /\ cmds[1].out.k = "ok"

(* the display name of a listed account: its ID when the name is missing *)
DisplayName(account) ==
    IF account.name.k = "absent" THEN account.id ELSE account.name.v

(* a filter value names a listed account by exact ID or by name, any case *)
Names(value, account) ==
    value = account.id \/ Lower(value) = Lower(DisplayName(account))
Matched(value, accounts) == \E i \in DOMAIN accounts : Names(value, accounts[i])

----------------------------------------------------------------------------
(* C1: whatever the outcome of the Azure fetch, the GCP fetch runs after   *)
(* it over the supplied projects, and whatever the outcome of the GCP      *)
(* fetch, the records the Azure fetch returned stay in the aggregate: once *)
(* both fetches are over, each has an outcome, the projects queried are    *)
(* the supplied ones (all of them unless a listing failed), and the        *)
(* aggregate is exactly what each successful fetch returned.               *)
C1_FaultIsolation ==
    Finished =>
        /\ azure_result.k \in {"ok", "raise"}
        /\ gcp_result.k \in {"ok", "raise"}
        /\ IsPrefix(ScopesOf(GcpCmds), Projects)
        /\ gcp_result.k = "ok" => ScopesOf(GcpCmds) = Projects
        /\ gcp_result.k = "raise" =>
               /\ GcpCmds # <<>>
               /\ GcpCmds[Len(GcpCmds)].out.k \in {"CommandFailed", "MalformedOutput"}
        /\ records = (IF azure_result.k = "ok" THEN azure_result.v ELSE <<>>)
                        \o (IF gcp_result.k = "ok" THEN gcp_result.v ELSE <<>>)

C1_Witness ==
    /\ pc = "exit"
    /\ azure_result.k = "raise"
    /\ azure_result.v = "UnknownSubscription"
    /\ gcp_result.k = "ok"
    /\ Len(GcpCmds) = 2
    /\ records # <<>>
    /\ file.k = "written"

----------------------------------------------------------------------------
WriteFailed ==
    stderr # <<>> /\ stderr[Len(stderr)] = <<"Traceback", "OSError">>

----------------------------------------------------------------------------
(* The records a fetch owes for the listings it ran, in the order it ran   *)
(* them                                                                    *)

AccountOf(id) == Listed[CHOOSE i \in DOMAIN Listed : Listed[i].id = id]

AzureRecordsOf(c) ==
    [i \in DOMAIN c.out.v |->
        AzureRecord(c.scope, PyStr(DisplayName(AccountOf(c.scope))), c.out.v[i])]
GcpRecordsOf(c) == [i \in DOMAIN c.out.v |-> GcpRecord(c.scope, c.out.v[i])]

AzureListed ==
    IF azure_result.k = "ok"
    THEN Flatten([i \in DOMAIN AzureVmCmds |-> AzureRecordsOf(AzureVmCmds[i])])
    ELSE <<>>
GcpListed ==
    IF gcp_result.k = "ok"
    THEN Flatten([i \in DOMAIN GcpCmds |-> GcpRecordsOf(GcpCmds[i])])
    ELSE <<>>

(* the account a matched filter value stands for: the one with that ID,    *)
(* else the last listed one with that name                                 *)
StandsFor(value, accounts) ==
    IF \E i \in DOMAIN accounts : accounts[i].id = value
    THEN value
    ELSE accounts[CHOOSE i \in DOMAIN accounts :
                    /\ Lower(value) = Lower(DisplayName(accounts[i]))
                    /\ \A j \in DOMAIN accounts :
                          Lower(value) = Lower(DisplayName(accounts[j])) => j <= i].id

RECURSIVE FirstMentions(_, _)
FirstMentions(ids, seen) ==
    IF ids = <<>> THEN <<>>
    ELSE IF Head(ids) \in seen THEN FirstMentions(Tail(ids), seen)
    ELSE <<Head(ids)>> \o FirstMentions(Tail(ids), seen \cup {Head(ids)})

RowsFollowRecords ==
    file.k = "written" =>
        /\ Len(file.lines) = Len(records) + 1
        /\ \A i \in DOMAIN records : file.lines[i + 1] = writerow(to_row(records[i]))

(* the Azure records taken subscription by subscription in the order of   *)
(* the account listing                                                     *)
AzureInListingOrder ==
    IF azure_result.k = "ok"
    THEN Flatten([i \in DOMAIN Listed |->
            IF \E n \in DOMAIN AzureVmCmds : AzureVmCmds[n].scope = Listed[i].id
            THEN AzureRecordsOf(
                    AzureVmCmds[CHOOSE n \in DOMAIN AzureVmCmds :
                                    AzureVmCmds[n].scope = Listed[i].id])
            ELSE <<>>])
    ELSE <<>>

(* C3 as claimed: the aggregate is the Azure records, subscription by      *)
(* subscription in the order the Azure CLI listed the subscriptions and    *)
(* VM by VM in the order it listed the VMs, then the GCP records in the    *)
(* order the projects were supplied, and the CSV rows follow that order.   *)
C3_AsClaimed ==
    Finished =>
        /\ records = AzureInListingOrder \o GcpListed
        /\ gcp_result.k = "ok" => ScopesOf(GcpCmds) = Projects
        /\ RowsFollowRecords

(* C3 amended: the aggregate is the Azure records then the GCP records.    *)
(* The Azure records go subscription by subscription, in the order the     *)
(* Azure CLI listed the subscriptions when no filter was given and in the  *)
(* order the filter values first mention them otherwise, and VM by VM in   *)
(* the order the CLI listed the VMs; the GCP records go in the order the   *)
(* projects were supplied; the CSV rows follow the aggregate's order.      *)
C3_RecordOrder ==
    Finished =>
        /\ records = AzureListed \o GcpListed
        /\ azure_result.k = "ok" =>
               ScopesOf(AzureVmCmds) =
                   IF args.azure_subscription.k = "none"
                   THEN [i \in DOMAIN Listed |-> Listed[i].id]
                   ELSE FirstMentions(
                            [i \in DOMAIN args.azure_subscription.v |->
                                StandsFor(args.azure_subscription.v[i], Listed)],
                            {})
        /\ gcp_result.k = "ok" => ScopesOf(GcpCmds) = Projects
        /\ RowsFollowRecords

C3_Witness ==
    /\ pc = "exit"
    /\ file.k = "written"
    /\ args.azure_subscription.k = "list"
    /\ ScopesOf(AzureVmCmds) = <<<<"b">>, <<"a">>>>
    /\ [i \in DOMAIN Listed |-> Listed[i].id] = <<<<"a">>, <<"b">>>>
    /\ Len(AzureVmCmds[1].out.v) = 2
    /\ Len(AzureVmCmds[2].out.v) = 1
    /\ Projects = <<<<"q">>, <<"p">>>>
    /\ Len(records) = 5
    /\ IsAzureRecord(records[3])
    /\ IsGcpRecord(records[4])
    /\ records[4].subscription_or_project = PyStr(<<"q">>)
    /\ records[5].subscription_or_project = PyStr(<<"p">>)

----------------------------------------------------------------------------
(* C5: if the subscription listing succeeded and some requested value, at  *)
(* any position, matches neither an ID nor a name, then once resolution is *)
(* over the Azure fetch has failed with UnknownSubscription, no VM listing *)
(* was run for any subscription, and no Azure record is in the aggregate   *)
(* or in the fetch's own list.                                             *)
C5_UnmatchedAborts ==
    ( /\ ListingSucceeded
      /\ pc # "azure_resolve"
      /\ args.azure_subscription.k = "list"
      /\ \E i \in DOMAIN args.azure_subscription.v :
            ~Matched(args.azure_subscription.v[i], Listed) )
    => /\ azure_result = [k |-> "raise", v |-> "UnknownSubscription"]
       /\ AzureVmCmds = <<>>
       /\ \A i \in DOMAIN records : ~IsAzureRecord(records[i])
       /\ \A i \in DOMAIN local : ~IsAzureRecord(local[i])

C5_Witness ==
    /\ pc = "exit"
    /\ args.azure_subscription.k = "list"
    /\ Len(args.azure_subscription.v) = 2
    /\ Matched(args.azure_subscription.v[1], Listed)
    /\ ~Matched(args.azure_subscription.v[2], Listed)
    /\ ListingSucceeded
    /\ azure_result = [k |-> "raise", v |-> "UnknownSubscription"]
    /\ Len(cmds) = 1

----------------------------------------------------------------------------
(* C7: when no --gcp-project was given, no gcloud command is ever run, and *)
(* once the GCP fetch is over it has returned the empty list, whatever the *)
(* Azure fetch did.                                                        *)
C7_NoProjectsNoCommand ==
    args.gcp_project.k = "none" =>
        /\ GcpCmds = <<>>
        /\ Finished => gcp_result = Ok(<<>>)
        /\ \A i \in DOMAIN records : ~IsGcpRecord(records[i])

C7_Witness ==
    /\ pc = "exit"
    /\ args.gcp_project.k = "none"
    /\ azure_result.k = "ok"
    /\ records # <<>>
    /\ gcp_result = Ok(<<>>)
    /\ GcpCmds = <<>>

----------------------------------------------------------------------------
(* C9: a provider whose fetch failed contributes nothing: none of its      *)
(* records, those mapped before the failure included, is in the aggregate  *)
(* or in the CSV, and no command of that provider runs after the one that  *)
(* failed.                                                                 *)
C9_AllOrNothing ==
    /\ azure_result.k = "raise" =>
           /\ \A i \in DOMAIN records : ~IsAzureRecord(records[i])
           /\ \A i \in DOMAIN file.lines : file.lines[i][1] # AZURE
    /\ gcp_result.k = "raise" =>
           /\ \A i \in DOMAIN records : ~IsGcpRecord(records[i])
           /\ \A i \in DOMAIN file.lines : file.lines[i][1] # GCP
    /\ \A i, j \in DOMAIN cmds :
           i < j /\ cmds[i].out.k # "ok" => IsAzure(cmds[i]) # IsAzure(cmds[j])

C9_Witness ==
    /\ pc = "exit"
    /\ azure_result.k = "raise"
    /\ Len(AzureVmCmds) = 2
    /\ AzureVmCmds[1].out.k = "ok"
    /\ Len(AzureVmCmds[1].out.v) = 2
    /\ AzureVmCmds[2].out.k = "CommandFailed"
    /\ gcp_result.k = "ok"
    /\ file.k = "written"
    /\ \A i \in DOMAIN records : IsGcpRecord(records[i])

----------------------------------------------------------------------------
(* Claims about resolve_requested_subscriptions alone (SpecResolve) *)

Resolved == rs # <<>> /\ rs.stage = "returned" /\ rs.requested.k = "list"

(* value is the display name of the subscription at position n, in any case *)
ByNameOf(value, n) == Lower(value) = Lower(rs.all[n][2].v)

InItems(pair) == \E m \in DOMAIN rs.out.items : rs.out.items[m] = pair

(* C4 as claimed: a listed subscription requested by its display name, in  *)
(* any letter case, resolves to the pair <<id, name>> that requesting it   *)
(* by its ID yields, also when several subscriptions share a name.         *)
C4_AsClaimed ==
    Resolved =>
        \A i \in DOMAIN rs.requested.v : \A n \in DOMAIN rs.all :
            ByNameOf(rs.requested.v[i], n) =>
                /\ rs.out.k = "raise" => rs.out.value # rs.requested.v[i]
                /\ rs.out.k = "ok" => InItems(rs.all[n])

(* C4 amended: a listed subscription requested by its exact ID resolves to *)
(* its pair <<id, name>>; requested by its display name in any letter      *)
(* case it resolves to the same pair provided no other listed subscription *)
(* has that name up to case and the requested value is not the ID of       *)
(* another listed subscription (C4_Theorem adds the shared name).          *)
C4_SamePair ==
    Resolved =>
        \A i \in DOMAIN rs.requested.v : \A n \in DOMAIN rs.all :
            ( \/ rs.requested.v[i] = rs.all[n][1]
              \/ /\ ByNameOf(rs.requested.v[i], n)
                 /\ \A o \in DOMAIN rs.all :
                       o # n => /\ ~ByNameOf(rs.requested.v[i], o)
                                /\ rs.requested.v[i] # rs.all[o][1] )
            => /\ rs.out.k = "raise" => rs.out.value # rs.requested.v[i]
               /\ rs.out.k = "ok" => InItems(rs.all[n])
               /\ Len(rs.requested.v) = 1 => rs.out.items = <<rs.all[n]>>

(* C4, the shared name: a requested value that is no listed ID and is, up  *)
(* to case, the display name of several listed subscriptions resolves to   *)
(* the last listed of them, and requested alone to that one only.          *)
C4_SharedName ==
    Resolved =>
        \A i \in DOMAIN rs.requested.v : \A n \in DOMAIN rs.all :
            ( /\ \A o \in DOMAIN rs.all : rs.requested.v[i] # rs.all[o][1]
              /\ ByNameOf(rs.requested.v[i], n)
              /\ \A o \in DOMAIN rs.all : ByNameOf(rs.requested.v[i], o) => o <= n )
            => /\ rs.out.k = "raise" => rs.out.value # rs.requested.v[i]
               /\ rs.out.k = "ok" => InItems(rs.all[n])
               /\ Len(rs.requested.v) = 1 => rs.out.items = <<rs.all[n]>>

(* C4 amended, whole: by exact ID, or by a display name no other listed    *)
(* subscription bears and that is no other subscription's ID, a            *)
(* subscription resolves to its own pair <<id, name>>; a display name      *)
(* shared up to case resolves to the last listed subscription bearing it.  *)
C4_Theorem == C4_SamePair /\ C4_SharedName

C4_Witness ==
    /\ Resolved
    /\ rs.all = <<<<<<"a">>, PyStr(<<"B">>)>>, <<<<"A">>, PyStr(<<"a">>)>>>>
    /\ rs.requested.v = <<<<"b">>>>
    /\ rs.out.k = "ok"
    /\ rs.out.items = <<<<<<"a">>, PyStr(<<"B">>)>>>>

(* C6: a requested value that is the ID of one listed subscription and,    *)
(* ignoring case, the display name of another resolves to the subscription *)
(* whose ID it is: that pair is among the resolved ones, the value never   *)
(* causes UnknownSubscription, and requested alone it resolves to that     *)
(* pair only.                                                              *)
C6_IdPrecedence ==
    Resolved =>
        \A i \in DOMAIN rs.requested.v : \A n, o \in DOMAIN rs.all :
            ( /\ n # o
              /\ rs.requested.v[i] = rs.all[n][1]
              /\ ByNameOf(rs.requested.v[i], o) )
            => /\ rs.out.k = "raise" => rs.out.value # rs.requested.v[i]
               /\ rs.out.k = "ok" => InItems(rs.all[n])
               /\ Len(rs.requested.v) = 1 => rs.out.items = <<rs.all[n]>>

C6_Witness ==
    /\ Resolved
    /\ rs.all = <<<<<<"a">>, PyStr(<<"B">>)>>, <<<<"B">>, PyStr(<<"b">>)>>>>
    /\ rs.requested.v = <<<<"B">>>>
    /\ rs.out.items = <<<<<<"B">>, PyStr(<<"b">>)>>>>

----------------------------------------------------------------------------
(* Claims about the field mappings alone (SpecMap) *)

Written == mp # <<>> /\ mp.stage = "written"

SourceTags == TagsOrEmpty(IF mp.cloud = "azure" THEN mp.vm.tags ELSE mp.vm.labels)

(* a tag or label is in the source data when its key is there with a      *)
(* value (a JSON null is no value)                                         *)
InSource(member) == member.k = "str"

(* C8 as claimed: the owner, cleardata and environment columns of the CSV  *)
(* line are the empty string if and only if the tag or label of that name  *)
(* is absent from the VM's source data.                                    *)
C8_AsClaimed ==
    Written =>
        /\ mp.line[6] = EMPTY <=> ~InSource(SourceTags.owner)
        /\ mp.line[7] = EMPTY <=> ~InSource(SourceTags.cleardata)
        /\ mp.line[8] = EMPTY <=> ~InSource(SourceTags.environment)

Blank(member) == ~InSource(member) \/ member.v = EMPTY

(* C8 amended: the owner, cleardata and environment columns of the CSV     *)
(* line are the empty string if and only if the tag or label of that name  *)
(* is absent from the VM's source data or is present with a null or empty  *)
(* value; any other value is written as it is.                             *)
C8_EmptyIffBlank ==
    Written =>
        /\ mp.line[6] = (IF Blank(SourceTags.owner) THEN EMPTY ELSE SourceTags.owner.v)
        /\ mp.line[7] = (IF Blank(SourceTags.cleardata) THEN EMPTY
                                                        ELSE SourceTags.cleardata.v)
        /\ mp.line[8] = (IF Blank(SourceTags.environment) THEN EMPTY
                                                          ELSE SourceTags.environment.v)

C8_Witness ==
    /\ Written
    /\ mp.cloud = "gcp"
    /\ mp.vm.labels.k = "obj"
    /\ mp.vm.labels.owner = JStr(<<"x">>)
    /\ mp.vm.labels.cleardata = Absent
    /\ mp.vm.labels.environment = JStr(EMPTY)
    /\ mp.line[6] = <<"x">>
    /\ mp.line[7] = EMPTY
    /\ mp.line[8] = EMPTY

(* a field supplies a value when it is present with a non-empty string *)
Supplies(member) == member.k = "str" /\ member.v # EMPTY

(* C10: the status of an Azure record is the power state if that field     *)
(* supplies a value, else the provisioning state if that one does, else    *)
(* "unknown"; it is always a string, and it is "unknown" exactly when      *)
(* neither field supplies a value.                                         *)
C10_AzureStatus ==
    (mp # <<>> /\ mp.stage = "mapped" /\ mp.cloud = "azure") =>
        /\ mp.record.status.k = "str"
        /\ mp.record.status.v =
              IF Supplies(mp.vm.powerState) THEN mp.vm.powerState.v
              ELSE IF Supplies(mp.vm.provisioningState)
                   THEN mp.vm.provisioningState.v
                   ELSE UNKNOWN

====
